---- MODULE Spec2Model ----
(***************************************************************************)
(* The /translate request handler of server.py (YouTube Narrator v5.1):    *)
(* validation, transcript extraction, optional context generation, the     *)
(* batch loop around translate_batch, the speech-rate annotation and the   *)
(* response.                                                               *)
(*                                                                         *)
(* A Python str is a sequence of one-character strings; a literal of the   *)
(* source that nothing looks into ("Traduza para PT-BR:", "Contexto: ",    *)
(* "Video: ") is kept as one element.  Seconds are integers, and a speech  *)
(* rate is the exact fraction <<numerator, denominator>>.                  *)
(***************************************************************************)
EXTENDS Integers, Sequences, FiniteSets, TLC

VARIABLES
    pc,                 \* position in translate(): "validate", "extract",
                        \* "context", "loop", "done"
    data,               \* request.json
    grouped,            \* group_segments(transcript)
    context,            \* the local `context` of translate()
    generated_context,  \* the local `generated_context`
    batch_size,         \* the local `batch_size`
    i,                  \* the loop variable of the batch loop
    all_translated,     \* the local `all_translated`
    llm_response,       \* the last `response` of translate_batch
    calls,              \* every outbound network call made so far, in order
    response            \* the HTTP response of the request

vars == <<pc, data, grouped, context, generated_context, batch_size, i,
          all_translated, llm_response, calls, response>>

(***************************************************************************)
(* Bounds.                                                                 *)
(***************************************************************************)
MaxSegs == 3
MaxBatch == 2
MaxLines == 3

(***************************************************************************)
(* Python str helpers.                                                     *)
(***************************************************************************)
NL == "\n"

IsSpace(c) == c \in {" ", NL, "\t"}

Digits == <<"0", "1", "2", "3", "4", "5", "6", "7", "8", "9">>

IsDigit(c) == \E d \in 1..10 : Digits[d] = c

DigitVal(c) == (CHOOSE d \in 1..10 : Digits[d] = c) - 1

\* str(n) for n >= 0
RECURSIVE Str(_)
Str(n) == IF n < 10 THEN <<Digits[n + 1]>>
          ELSE Str(n \div 10) \o <<Digits[(n % 10) + 1]>>

\* int(s) for a non-empty run of digits
RECURSIVE ParseInt(_)
ParseInt(s) == IF Len(s) = 1 THEN DigitVal(s[1])
          ELSE 10 * ParseInt(SubSeq(s, 1, Len(s) - 1)) + DigitVal(s[Len(s)])

RECURSIVE LStrip(_)
LStrip(s) == IF s = <<>> THEN s
             ELSE IF IsSpace(Head(s)) THEN LStrip(Tail(s)) ELSE s

RECURSIVE RStrip(_)
RStrip(s) == IF s = <<>> THEN s
             ELSE IF IsSpace(s[Len(s)]) THEN RStrip(SubSeq(s, 1, Len(s) - 1))
             ELSE s

\* s.strip()
Strip(s) == RStrip(LStrip(s))

\* SplitLines gone wrong: the reply is matched as a whole, not line by line
SplitNoLines(s) == <<s>>

\* s.split('\n')
RECURSIVE SplitLines(_)
SplitLines(s) ==
    IF \A k \in 1..Len(s) : s[k] # NL THEN <<s>>
    ELSE LET p == CHOOSE k \in 1..Len(s) :
                      s[k] = NL /\ \A j \in 1..(k - 1) : s[j] # NL
         IN  <<SubSeq(s, 1, p - 1)>> \o SplitLines(SubSeq(s, p + 1, Len(s)))

\* sep.join(parts)
RECURSIVE Join(_, _)
Join(parts, sep) ==
    IF parts = <<>> THEN <<>>
    ELSE IF Len(parts) = 1 THEN parts[1]
    ELSE parts[1] \o sep \o Join(Tail(parts), sep)

RECURSIVE DropWord(_)
DropWord(s) == IF s = <<>> THEN s
               ELSE IF IsSpace(Head(s)) THEN s ELSE DropWord(Tail(s))

\* len(s.split())
RECURSIVE WordCount(_)
WordCount(s) == LET t == LStrip(s)
                IN  IF t = <<>> THEN 0 ELSE 1 + WordCount(DropWord(t))

(***************************************************************************)
(* re.match(r'\[(\d+)\]\s*(.+)', line): "[", a greedy run of digits, "]",  *)
(* greedy whitespace, then at least one character.  When only whitespace   *)
(* follows "]", \s* gives its last character back to (.+).                 *)
(***************************************************************************)
RECURSIVE DigitRun(_, _)
DigitRun(line, from) ==
    IF from <= Len(line) /\ IsDigit(line[from]) THEN 1 + DigitRun(line, from + 1)
    ELSE 0

NoMatch == [ok |-> FALSE, index |-> 0, text |-> <<>>]

ReMatch(line) ==
    LET n == Len(line)
        d == DigitRun(line, 2)
    IN  IF n >= d + 3 /\ d >= 1 /\ line[1] = "[" /\ line[d + 2] = "]"
        THEN LET rest == SubSeq(line, d + 3, n)
                 body == LStrip(rest)
             IN  [ok    |-> TRUE,
                  index |-> ParseInt(SubSeq(line, 2, d + 1)),
                  text  |-> IF body # <<>> THEN body ELSE <<rest[Len(rest)]>>]
        ELSE NoMatch

\* ScanLines gone wrong: the first occurrence of an index is kept
RECURSIVE ScanLinesFirstWins(_, _)
ScanLinesFirstWins(lines, translations) ==
    IF lines = <<>> THEN translations
    ELSE LET match == ReMatch(Strip(Head(lines)))
             next  == IF match.ok /\ match.index \notin DOMAIN translations
                      THEN [k \in (DOMAIN translations) \cup {match.index} |->
                               IF k = match.index THEN Strip(match.text)
                               ELSE translations[k]]
                      ELSE translations
         IN  ScanLinesFirstWins(Tail(lines), next)

\* the dict `translations` after the lines `lines` have been scanned
RECURSIVE ScanLines(_, _)
ScanLines(lines, translations) ==
    IF lines = <<>> THEN translations
    ELSE LET match == ReMatch(Strip(Head(lines)))
             next  == IF match.ok
                      THEN [k \in (DOMAIN translations) \cup {match.index} |->
                               IF k = match.index THEN Strip(match.text)
                               ELSE translations[k]]
                      ELSE translations
         IN  ScanLines(Tail(lines), next)

EmptyDict == [k \in {} |-> <<>>]

\* translate_batch, lines 184-188
ParseReply(translated_text) ==
    ScanLines(SplitLines(Strip(translated_text)), EmptyDict)

(***************************************************************************)
(* translate_batch: the prompt and the reassembly.                         *)
(***************************************************************************)
\* PromptLines gone wrong: tags counted from 1
PromptLinesOneBased(segments) ==
    [k \in 1..Len(segments) |->
        <<"[">> \o Str(k) \o <<"]", " ">> \o segments[k].text]

\* line 150: texts = [f"[{i}] {seg['text']}" for i, seg in enumerate(segments)]
PromptLines(segments) ==
    [k \in 1..Len(segments) |->
        <<"[">> \o Str(k - 1) \o <<"]", " ">> \o segments[k].text]

\* UserPrompt gone wrong: only the batch that starts the video gets the context
UserPromptFirstBatchOnly(segments, ctx) ==
    LET all_texts   == Join(PromptLines(segments), <<NL>>)
        user_prompt == <<"Traduza para PT-BR:", NL, NL>> \o all_texts
    IN  IF ctx # <<>> /\ segments[1].start = 0
        THEN <<"Contexto: ">> \o ctx \o <<NL, NL>> \o user_prompt
        ELSE user_prompt

\* lines 151, 162-164
UserPrompt(segments, ctx) ==
    LET all_texts   == Join(PromptLines(segments), <<NL>>)
        user_prompt == <<"Traduza para PT-BR:", NL, NL>> \o all_texts
    IN  IF ctx # <<>>
        THEN <<"Contexto: ">> \o ctx \o <<NL, NL>> \o user_prompt
        ELSE user_prompt

\* Reassemble gone wrong: a segment without a translation is left out
ReassembleDropMissing(segments, translations) ==
    SelectSeq([k \in 1..Len(segments) |->
                  [start      |-> segments[k].start,
                   duration   |-> segments[k].duration,
                   original   |-> segments[k].text,
                   translated |-> IF (k - 1) \in DOMAIN translations
                                  THEN translations[k - 1]
                                  ELSE <<>>]],
              LAMBDA r : r.translated # <<>>)

\* Reassemble gone wrong: a segment without a translation gets an empty one
ReassembleBlankMissing(segments, translations) ==
    [k \in 1..Len(segments) |->
        [start      |-> segments[k].start,
         duration   |-> segments[k].duration,
         original   |-> segments[k].text,
         translated |-> IF (k - 1) \in DOMAIN translations
                        THEN translations[k - 1]
                        ELSE <<>>]]

\* lines 190-199
Reassemble(segments, translations) ==
    [k \in 1..Len(segments) |->
        [start      |-> segments[k].start,
         duration   |-> segments[k].duration,
         original   |-> segments[k].text,
         translated |-> IF (k - 1) \in DOMAIN translations
                        THEN translations[k - 1]
                        ELSE segments[k].text]]

(***************************************************************************)
(* estimate_speech_rate.  words / 2.5 <= d  is  2 * words <= 5 * d; the    *)
(* quotient (words / 2.5) / d is 2 * words / (5 * d), and it reaches 1.5   *)
(* when 4 * words >= 15 * d.  Dividing by d = 0 raises ZeroDivisionError.  *)
(***************************************************************************)
estimate_speech_rate(text, available_duration) ==
    LET words == WordCount(text)
    IN  IF 2 * words <= 5 * available_duration
        THEN [raised |-> FALSE, rate |-> <<1, 1>>]
        ELSE IF available_duration = 0
        THEN [raised |-> TRUE, rate |-> <<>>]
        ELSE IF 4 * words >= 15 * available_duration
        THEN [raised |-> FALSE, rate |-> <<3, 2>>]
        ELSE [raised |-> FALSE, rate |-> <<2 * words, 5 * available_duration>>]

(***************************************************************************)
(* The inputs of a request and the replies of the outside world.           *)
(***************************************************************************)
\* request.json: '' stands for a missing or empty field
Requests ==
    [video_url    : {"", "dQw4w9WgXcQ"},
     api_key      : {"", "gsk"},
     context      : {<<>>, <<"c">>},
     auto_context : BOOLEAN]

\* text and duration of a grouped segment: group_segments appends a segment
\* only when its text is non-empty
SegPayloads ==
    {[text |-> <<"a">>, duration |-> 2],
     [text |-> <<"a", " ", "b", " ", "c", " ", "d">>, duration |-> 1],
     [text |-> <<"b">>, duration |-> 0]}

\* group_segments starts a new segment once 8 seconds have passed
max_duration == 8

MakeGrouped(payloads) ==
    [k \in 1..Len(payloads) |->
        [text     |-> payloads[k].text,
         start    |-> max_duration * (k - 1),
         duration |-> payloads[k].duration]]

GroupedSeqs ==
    UNION {{MakeGrouped(ps) : ps \in [1..n -> SegPayloads]} : n \in 0..MaxSegs}

\* batch_size is 50 in the source, one constant per deployment; Spec lets it
\* range over 1..MaxBatch so that a few segments make several batches
DeployedBatchSize == 50

BatchSizes == 1..MaxBatch

FailKinds == {"status", "timeout", "transport", "malformed"}

\* what requests.post(GROQ_API_URL, ...) gives: a 200 with a content string,
\* or a failure
LlmOutcomes(replies) ==
    {[kind |-> "ok", content |-> r] : r \in replies}
        \cup {[kind |-> f, content |-> <<>>] : f \in FailKinds}

NoLlmResponse == [kind |-> "none", content |-> <<>>]

\* replies to a batch prompt: complete, reordered with blank lines and
\* surrounding whitespace, without any marker, with index 0 missing
BatchReplies ==
    {<<"[", "0", "]", " ", "x", " ", "y", " ", "z", NL, "[", "1", "]", " ", "y">>,
     <<"[", "1", "]", " ", "y", NL, NL, " ", "[", "0", "]", " ", "x", " ">>,
     <<"n", "o", "t", "e">>,
     <<"[", "1", "]", " ", "y">>}

\* replies to the context prompt, and the scraped title
ContextReplies == {<<" ", "g", " ">>, <<>>}

Titles == {<<"T">>}

(***************************************************************************)
(* The state of a request.                                                 *)
(***************************************************************************)
NoResponse ==
    [status |-> 0, error |-> "", segments |-> <<>>, segment_count |-> 0,
     context_used |-> <<>>, context_auto_generated |-> FALSE]

ErrorResponse(code, message) ==
    [NoResponse EXCEPT !.status = code, !.error = message]

Call(kind, prompt, segments) ==
    [kind |-> kind, prompt |-> prompt, segments |-> segments]

NoRate == <<>>

Init ==
    /\ pc = "validate"
    /\ data \in Requests
    /\ batch_size \in BatchSizes
    /\ grouped = <<>>
    /\ context = <<>>
    /\ generated_context = <<>>
    /\ i = 0
    /\ all_translated = <<>>
    /\ llm_response = NoLlmResponse
    /\ calls = <<>>
    /\ response = NoResponse

\* lines 252-261
Validate ==
    /\ pc = "validate"
    /\ context' = data.context
    /\ IF data.video_url = ""
       THEN pc' = "done" /\ response' = ErrorResponse(400, "video_url obrigatorio")
       ELSE IF data.api_key = ""
       THEN pc' = "done" /\ response' = ErrorResponse(400, "api_key obrigatorio")
       ELSE pc' = "extract" /\ response' = response
    /\ UNCHANGED <<data, grouped, generated_context, batch_size, i,
                   all_translated, llm_response, calls>>

\* lines 264-269: get_transcript raises, or gives a transcript that
\* group_segments turns into `grouped`
Extract ==
    /\ pc = "extract"
    /\ calls' = Append(calls, Call("transcript", <<>>, <<>>))
    /\ \/ /\ pc' = "done"
          /\ response' = ErrorResponse(500, "Erro ao extrair legendas")
          /\ grouped' = grouped
       \/ /\ grouped' \in GroupedSeqs
          /\ pc' = "context"
          /\ response' = response
    /\ UNCHANGED <<data, context, generated_context, batch_size, i,
                   all_translated, llm_response>>

\* generate_context_from_content: the stripped content of a 200 reply, else
\* the title fallback; it never raises
generate_context_from_content(title, outcome) ==
    IF outcome.kind = "ok" THEN Strip(outcome.content)
    ELSE <<"Video: ">> \o title

\* lines 271-276
Context ==
    /\ pc = "context"
    /\ IF context = <<>> /\ data.auto_context
       THEN \E title \in Titles, outcome \in LlmOutcomes(ContextReplies) :
               /\ calls' = calls \o <<Call("metadata", <<>>, <<>>),
                                      Call("llm_context", <<>>, <<>>)>>
               /\ generated_context' = generate_context_from_content(title, outcome)
               /\ context' = generated_context'
       ELSE UNCHANGED <<calls, generated_context, context>>
    /\ pc' = "loop"
    /\ UNCHANGED <<data, grouped, batch_size, i, all_translated,
                   llm_response, response>>

Min(a, b) == IF a <= b THEN a ELSE b

\* Slice gone wrong: the slice runs one segment too far
SliceOverlap(seq, from, to) == SubSeq(seq, from + 1, Min(to + 1, Len(seq)))

\* line 282: grouped[i:i + batch_size]
Slice(seq, from, to) == SubSeq(seq, from + 1, Min(to, Len(seq)))

\* translate_batch(segments, api_key, context) when requests.post gives
\* `outcome`: it raises unless the call gave a 200 with a content string
translate_batch(segments, outcome) ==
    IF outcome.kind = "ok"
    THEN [raised |-> FALSE, error |-> "",
          result |-> Reassemble(segments, ParseReply(outcome.content))]
    ELSE [raised |-> TRUE,
          error  |-> IF outcome.kind = "status" THEN "Erro Groq" ELSE outcome.kind,
          result |-> <<>>]

\* one iteration of the loop of lines 281-285; an exception goes to the
\* handler of lines 302-304
BatchStep(replies) ==
    /\ pc = "loop"
    /\ i < Len(grouped)
    /\ \E outcome \in LlmOutcomes(replies) :
          LET batch      == Slice(grouped, i, i + batch_size)
              translated == translate_batch(batch, outcome)
          IN  /\ calls' = Append(calls,
                     Call("llm_batch", UserPrompt(batch, context), batch))
              /\ llm_response' = outcome
              /\ IF translated.raised
                 THEN /\ pc' = "done"
                      /\ response' = ErrorResponse(500, translated.error)
                      /\ UNCHANGED <<i, all_translated>>
                 ELSE /\ all_translated' = all_translated \o
                             [k \in 1..Len(translated.result) |->
                                 [start      |-> translated.result[k].start,
                                  duration   |-> translated.result[k].duration,
                                  original   |-> translated.result[k].original,
                                  translated |-> translated.result[k].translated,
                                  rate       |-> NoRate]]
                      /\ i' = i + batch_size
                      /\ UNCHANGED <<pc, response>>
    /\ UNCHANGED <<data, grouped, context, generated_context, batch_size>>

TranslateBatch == BatchStep(BatchReplies)

\* lines 287-301, after the loop has run out; a ZeroDivisionError of
\* estimate_speech_rate goes to the handler of lines 302-304, and the
\* segments before the raising one keep their rate
Finish ==
    /\ pc = "loop"
    /\ i >= Len(grouped)
    /\ LET n       == Len(all_translated)
           est(k)  == estimate_speech_rate(all_translated[k].translated,
                                           all_translated[k].duration)
           raising == {k \in 1..n : est(k).raised}
           stop    == IF raising = {} THEN n + 1
                      ELSE CHOOSE k \in raising : \A j \in raising : k <= j
       IN  /\ all_translated' =
                  [k \in 1..n |->
                      IF k < stop
                      THEN [all_translated[k] EXCEPT !.rate = est(k).rate]
                      ELSE all_translated[k]]
           /\ response' =
                  IF raising # {}
                  THEN ErrorResponse(500, "float division by zero")
                  ELSE [status                 |-> 200,
                        error                  |-> "",
                        segments               |-> all_translated',
                        segment_count          |-> n,
                        context_used           |-> context,
                        context_auto_generated |-> generated_context # <<>>]
    /\ pc' = "done"
    /\ UNCHANGED <<data, grouped, context, generated_context, batch_size, i,
                   llm_response, calls>>

Next == Validate \/ Extract \/ Context \/ TranslateBatch \/ Finish

Spec == Init /\ [][Next]_vars

(***************************************************************************)
(* SpecParse: translate_batch on replies built from lines.  The request    *)
(* has passed extraction with one or two segments, which batch_size = 50   *)
(* puts in a single batch, and the reply is any sequence of at most        *)
(* MaxLines lines of ReplyLineSet.  Each line is listed with what it is:   *)
(* the index and the translation it carries (tag -1: it carries none), and *)
(* whether it begins with a bracketed marker.                              *)
(***************************************************************************)
ReplyLineSet ==
    {[chars |-> <<"[", "0", "]", " ", "x">>,
      tag |-> 0, text |-> <<"x">>, marker |-> TRUE],
     [chars |-> <<"[", "1", "]", " ", "y">>,
      tag |-> 1, text |-> <<"y">>, marker |-> TRUE],
     [chars |-> <<" ", " ", "[", "0", "]", " ", " ", "z", " ", "w", " ">>,
      tag |-> 0, text |-> <<"z", " ", "w">>, marker |-> TRUE],
     [chars |-> <<>>,
      tag |-> -1, text |-> <<>>, marker |-> FALSE],
     [chars |-> <<"n", "o", "t", "e">>,
      tag |-> -1, text |-> <<>>, marker |-> FALSE],
     \* a marker with nothing after it: the pattern asks for a translation
     [chars |-> <<"[", "1", "]">>,
      tag |-> -1, text |-> <<>>, marker |-> TRUE]}

LineSeqs == UNION {[1..n -> ReplyLineSet] : n \in 0..MaxLines}

Render(ls) == Join([k \in 1..Len(ls) |-> ls[k].chars], <<NL>>)

ReplyTable == {[chars |-> Render(ls), lines |-> ls] : ls \in LineSeqs}

ParseReplies == {e.chars : e \in ReplyTable}

ParseGrouped ==
    UNION {{MakeGrouped(ps) :
               ps \in [1..n -> {p \in SegPayloads : Len(p.text) = 1}]} :
           n \in 1..2}

InitParse ==
    /\ pc = "loop"
    /\ data = [video_url |-> "dQw4w9WgXcQ", api_key |-> "gsk",
               context |-> <<>>, auto_context |-> FALSE]
    /\ batch_size = DeployedBatchSize
    /\ grouped \in ParseGrouped
    /\ context = <<>>
    /\ generated_context = <<>>
    /\ i = 0
    /\ all_translated = <<>>
    /\ llm_response = NoLlmResponse
    /\ calls = <<Call("transcript", <<>>, <<>>)>>
    /\ response = NoResponse

TranslateBatchParse == BatchStep(ParseReplies)

NextParse == TranslateBatchParse \/ Finish

SpecParse == InitParse /\ [][NextParse]_vars

(***************************************************************************)
(* What the properties read off the state.                                 *)
(***************************************************************************)
BatchCalls == SelectSeq(calls, LAMBDA c : c.kind = "llm_batch")

\* the batches handed to translate_batch so far, in order
BatchesFormed == [j \in 1..Len(BatchCalls) |-> BatchCalls[j].segments]

RECURSIVE Concat(_)
Concat(seqs) == IF seqs = <<>> THEN <<>> ELSE Head(seqs) \o Concat(Tail(seqs))

Ceil(n, b) == (n + b - 1) \div b

\* the loop of lines 281-285 has run out
LoopRanOut == pc \in {"loop", "done"} /\ i >= Len(grouped)

\* number of segments in the batches before the j-th
Offset(j) == Len(Concat(SubSeq(BatchesFormed, 1, j - 1)))

\* the [index] tags of the segment lines of a prompt, and their texts
PromptMatches(prompt) ==
    LET lines == SplitLines(prompt)
    IN  SelectSeq([k \in 1..Len(lines) |-> ReMatch(lines[k])],
                  LAMBDA m : m.ok)

\* the context a prompt carries: what stands between "Contexto: " and the
\* blank line before "Traduza para PT-BR:"
PromptContext(prompt) ==
    IF prompt[1] = "Contexto: "
    THEN LET p == CHOOSE k \in 1..Len(prompt) : prompt[k] = "Traduza para PT-BR:"
         IN  SubSeq(prompt, 2, p - 3)
    ELSE <<>>

\* the line sequences the last reply of the LLM is the rendering of
ReplyLines == {e.lines : e \in {t \in ReplyTable : t.chars = llm_response.content}}

\* the lines of ls tagged with index t
Tagged(ls, t) == {j \in 1..Len(ls) : ls[j].tag = t}

Last(S) == CHOOSE j \in S : \A k \in S : k <= j

\* the batch of SpecParse has been translated
Parsed == llm_response.kind = "ok"

(***************************************************************************)
(* C1.  If the LLM call of a batch fails in a request whose segments span  *)
(* several batches, the request still ends with a successful response that *)
(* has every segment, and every batch has been sent to the LLM.            *)
(***************************************************************************)
C1_FailedBatchDegrades ==
    (pc = "done" /\ llm_response.kind \in FailKinds /\ Len(grouped) > batch_size)
        => /\ response.status = 200
           /\ Len(response.segments) = Len(grouped)
           /\ Len(BatchCalls) = Ceil(Len(grouped), batch_size)

(***************************************************************************)
(* C2.  A successful response of /translate has exactly one output segment *)
(* per grouped segment, the k-th with the start, the duration and the      *)
(* source text of the k-th grouped segment.                                *)
(***************************************************************************)
C2_OneOutputPerInput ==
    response.status = 200
        => /\ Len(response.segments) = Len(grouped)
           /\ response.segment_count = Len(grouped)
           /\ \A k \in 1..Len(grouped) :
                 /\ response.segments[k].start = grouped[k].start
                 /\ response.segments[k].duration = grouped[k].duration
                 /\ response.segments[k].original = grouped[k].text

C2_Witness ==
    /\ response.status = 200
    /\ Len(grouped) = MaxSegs
    /\ Len(BatchCalls) >= 2
    /\ \E k \in 1..Len(grouped) :
          response.segments[k].translated = grouped[k].text
    /\ \E k \in 1..Len(grouped) :
          response.segments[k].translated # grouped[k].text

(***************************************************************************)
(* C3.  The batches the loop forms are contiguous slices of at most        *)
(* batch_size segments, all but the last of exactly batch_size; their      *)
(* concatenation, in the order they are formed, is the beginning of the    *)
(* segment sequence; and once the loop has run out there are               *)
(* ceil(N / batch_size) of them and the concatenation is the whole         *)
(* sequence.                                                               *)
(***************************************************************************)
C3_Batching ==
    LET bs == BatchesFormed
        n  == Len(grouped)
    IN  /\ \A j \in 1..Len(bs) : 1 <= Len(bs[j]) /\ Len(bs[j]) <= batch_size
        /\ \A j \in 1..(Len(bs) - 1) : Len(bs[j]) = batch_size
        /\ Len(Concat(bs)) <= n
        /\ Concat(bs) = SubSeq(grouped, 1, Len(Concat(bs)))
        /\ LoopRanOut => /\ Len(bs) = Ceil(n, batch_size)
                         /\ Concat(bs) = grouped

C3_Witness ==
    /\ LoopRanOut
    /\ pc = "done"
    /\ batch_size = 2
    /\ Len(grouped) = 3
    /\ Len(BatchesFormed) = 2
    /\ Len(BatchesFormed[2]) = 1

(***************************************************************************)
(* C4, as claimed.  The k-th segment line of the prompt of a batch carries *)
(* the index of its segment in the whole segment sequence, so no two       *)
(* segments of a request get the same tag.                                 *)
(***************************************************************************)
C4_GlobalIndexTags ==
    \A j \in 1..Len(BatchCalls) :
        LET ms == PromptMatches(BatchCalls[j].prompt)
        IN  \A k \in 1..Len(ms) : ms[k].index = Offset(j) + k - 1

(***************************************************************************)
(* C4, amended.  The k-th segment line of the prompt of a batch carries    *)
(* the position of its segment inside the batch, counted from 0, and the   *)
(* text of that segment; the tags of one prompt are pairwise different.    *)
(***************************************************************************)
C4_BatchRelativeTags ==
    \A j \in 1..Len(BatchCalls) :
        LET ms    == PromptMatches(BatchCalls[j].prompt)
            batch == BatchCalls[j].segments
        IN  /\ Len(ms) = Len(batch)
            /\ \A k \in 1..Len(ms) :
                  ms[k].index = k - 1 /\ ms[k].text = batch[k].text
            /\ \A k, m \in 1..Len(ms) : ms[k].index = ms[m].index => k = m

C4_Witness ==
    /\ Len(BatchCalls) >= 2
    /\ Len(BatchCalls[1].segments) = 2
    /\ PromptMatches(BatchCalls[1].prompt)[1].index
           = PromptMatches(BatchCalls[2].prompt)[1].index
    /\ BatchCalls[1].segments[1] # BatchCalls[2].segments[1]

(***************************************************************************)
(* C5.  When the LLM call of a batch succeeds, translate_batch returns one *)
(* result per segment without raising, and a segment whose index no line   *)
(* of the reply carries is emitted with translated equal to its source     *)
(* text; so is every segment when the reply has no parseable marker.       *)
(***************************************************************************)
C5_AbsentIndexFallsBack ==
    Parsed
        => /\ Len(all_translated) = Len(grouped)
           /\ i = batch_size
           /\ response.error \notin ({"Erro Groq"} \cup FailKinds)
           /\ \A ls \in ReplyLines : \A k \in 1..Len(grouped) :
                 Tagged(ls, k - 1) = {}
                     => all_translated[k].translated = grouped[k].text

C5_Witness ==
    /\ Parsed
    /\ llm_response.content = <<"[", "1", "]", " ", "y">>
    /\ Len(grouped) = 2
    /\ all_translated[1].translated = grouped[1].text
    /\ all_translated[2].translated = <<"y">>
    /\ response.status = 200

(***************************************************************************)
(* C6.  Translations go to segments by bracketed index, not by line        *)
(* position: whatever the order of the tagged lines, and whatever blank    *)
(* lines, surrounding whitespace or untagged lines stand between them, a   *)
(* segment whose index some line carries gets the translation of the last  *)
(* line that carries it.                                                   *)
(***************************************************************************)
C6_MappedByIndex ==
    Parsed
        => \A ls \in ReplyLines : \A k \in 1..Len(grouped) :
              Tagged(ls, k - 1) # {}
                  => all_translated[k].translated
                         = ls[Last(Tagged(ls, k - 1))].text

C6_Witness ==
    /\ Parsed
    /\ llm_response.content =
           <<"[", "1", "]", " ", "y", NL, "[", "0", "]", " ", "x", NL,
             " ", " ", "[", "0", "]", " ", " ", "z", " ", "w", " ">>
    /\ Len(grouped) = 2
    /\ all_translated[1].translated = <<"z", " ", "w">>
    /\ all_translated[2].translated = <<"y">>

(***************************************************************************)
(* C7.  Context generation runs at most once in a request and before the   *)
(* first batch call, and the prompt of every batch call carries the same   *)
(* context: the caller's when it gave one, the generated one otherwise.    *)
(***************************************************************************)
C7_ContextOnceAndSame ==
    LET gen == {k \in 1..Len(calls) : calls[k].kind = "llm_context"}
        bat == {k \in 1..Len(calls) : calls[k].kind = "llm_batch"}
    IN  /\ Cardinality(gen) <= 1
        /\ \A k \in gen : \A m \in bat : k < m
        /\ \A j, m \in 1..Len(BatchCalls) :
              PromptContext(BatchCalls[j].prompt)
                  = PromptContext(BatchCalls[m].prompt)
        /\ \A j \in 1..Len(BatchCalls) :
              PromptContext(BatchCalls[j].prompt)
                  = IF data.context # <<>> THEN data.context
                    ELSE generated_context

C7_Witness ==
    /\ Len(BatchCalls) >= 2
    /\ \E k \in 1..Len(calls) : calls[k].kind = "llm_context"
    /\ generated_context = <<"g">>
    /\ PromptContext(BatchCalls[2].prompt) = <<"g">>

(***************************************************************************)
(* C8.  A request whose segment sequence is empty ends with an empty       *)
(* result and has made no outbound call beyond the transcript fetch that   *)
(* showed the sequence to be empty: no metadata fetch, no LLM call.        *)
(***************************************************************************)
C8_EmptyMakesNoCall ==
    (pc = "done" /\ response.status = 200 /\ grouped = <<>>)
        => /\ response.segments = <<>>
           /\ BatchCalls = <<>>
           /\ \A k \in 1..Len(calls) : calls[k].kind = "transcript"

(***************************************************************************)
(* C9, as claimed.  The translation stored for an index is the whole text  *)
(* from its marker up to just before the next bracketed marker or the end  *)
(* of the reply, lines without a marker included.                          *)
(***************************************************************************)
Capture(ls, j) ==
    LET nexts == {m \in (j + 1)..Len(ls) : ls[m].marker}
        end   == IF nexts = {} THEN Len(ls)
                 ELSE (CHOOSE m \in nexts : \A q \in nexts : m <= q) - 1
    IN  Strip(Join(<<ls[j].text>> \o [m \in 1..(end - j) |-> ls[j + m].chars],
                   <<NL>>))

C9_MultiLineCapture ==
    Parsed
        => \A ls \in ReplyLines : \A k \in 1..Len(grouped) :
              Tagged(ls, k - 1) # {}
                  => all_translated[k].translated
                         = Capture(ls, Last(Tagged(ls, k - 1)))

(***************************************************************************)
(* C9, amended.  The translation stored for an index is the remainder of   *)
(* the marker's own line and never spans lines: when lines without a       *)
(* marker follow the marker's line, their text is not part of it.          *)
(***************************************************************************)
C9_OwnLineOnly ==
    Parsed
        => /\ \A k \in 1..Len(all_translated) :
                 \A q \in 1..Len(all_translated[k].translated) :
                     all_translated[k].translated[q] # NL
           /\ \A ls \in ReplyLines : \A k \in 1..Len(grouped) :
                 LET js == Tagged(ls, k - 1)
                 IN  (/\ js # {}
                      /\ Last(js) < Len(ls)
                      /\ ~ ls[Last(js) + 1].marker
                      /\ ls[Last(js) + 1].chars # <<>>)
                         => all_translated[k].translated = ls[Last(js)].text

C9_Witness ==
    /\ Parsed
    /\ llm_response.content =
           <<"[", "0", "]", " ", "x", NL, "n", "o", "t", "e">>
    /\ all_translated[1].translated = <<"x">>

(***************************************************************************)
(* C10.  Once every batch of a request has been translated, the rate       *)
(* annotation raises nothing: the request ends with a successful response  *)
(* in which every rate r satisfies 1 <= r <= 1.5, whatever the durations,  *)
(* zero included.                                                          *)
(***************************************************************************)
C10_RateNeverRaises ==
    (pc = "done" /\ Len(grouped) > 0 /\ Len(all_translated) = Len(grouped))
        => /\ response.status = 200
           /\ \A k \in 1..Len(response.segments) :
                 LET r == response.segments[k].rate
                 IN  r[2] <= r[1] /\ 2 * r[1] <= 3 * r[2]

====
